---- MODULE Spec2Model ----
(***************************************************************************)
(* A model of the ICMP echo probe of src/main.rs: the message codec, the   *)
(* checksum, the IP datagram unwrapping, the probe loop of ping_address    *)
(* and the summary statistics of print_stats.                              *)
(*                                                                         *)
(* Bytes are naturals below 256, 16-bit words naturals below 65536, byte   *)
(* slices are sequences (Rust index i is TLA+ index i + 1).  Durations are *)
(* whole microseconds.  Option values and panics are tagged records.       *)
(***************************************************************************)
EXTENDS Integers, Sequences, FiniteSets

VARIABLES
    pc,               \* position of the program
    little_endian,    \* byte order of the host the program was built for
    max_transmitted,  \* Options::max_transmitted (-c)
    packet_size,      \* Options::packet_size (-s)
    identifier,       \* std::process::id() as u16
    sequence_number,  \* sequence number of the last request built
    socket,           \* "none", "connected" or "unconnected"
    panic_msg,        \* the message of the panic that ended the program
    transmissions,    \* Vec<Transmission>
    data_sent,        \* the random payload of the current iteration
    msg,              \* the echo request built by echo_message
    wire,             \* the bytes handed to socket.send
    buffer,           \* result of socket.recv: buffer[..length] or an error
    icmp,             \* result of extract_icmp_message in this iteration
    reply,            \* result of receive_echo_reply in this iteration
    line,             \* the per-attempt line printed in this iteration
    elapsed,          \* timer.elapsed() of this iteration, in microseconds
    stats,            \* what print_stats computed
    rendered          \* output of display_frac_millis

vars == <<pc, little_endian, max_transmitted, packet_size, identifier,
          sequence_number, socket, panic_msg, transmissions, data_sent, msg,
          wire, buffer, icmp, reply, line, elapsed, stats, rendered>>

----------------------------------------------------------------------------
(* Bounds of the model *)

MaxAttempts == 2

MaxPacketSize == 2

MaxDataLen == 3

MaxMicros == 2100

MaxDatagramLen == 4

----------------------------------------------------------------------------
(* Option, Result and panic values *)

None == [tag |-> "None"]

Some(v) == [tag |-> "Some", val |-> v]

Panic(m) == [tag |-> "Panic", val |-> m]

RecvErr == [tag |-> "Err"]

RecvOk(bytes) == [tag |-> "Ok", val |-> bytes]

----------------------------------------------------------------------------
(* Integer helpers *)

U16 == 65536

\* u16::to_ne_bytes
to_ne_bytes(v) ==
    IF little_endian THEN <<v % 256, v \div 256>> ELSE <<v \div 256, v % 256>>

\* u16::from_ne_bytes([b0, b1])
from_ne_bytes(b0, b1) ==
    IF little_endian THEN b0 + 256 * b1 ELSE 256 * b0 + b1

\* u16::overflowing_add
overflowing_add(a, b) == [value |-> (a + b) % U16, overflowed |-> a + b >= U16]

----------------------------------------------------------------------------
(* ICMPMessage *)

ICMPMessage(t, c, ck, id, sq, d) ==
    [type_ |-> t, code |-> c, checksum |-> ck, identifier |-> id,
     sequence_number |-> sq, data |-> d]

as_bytes(m) ==
    <<m.type_, m.code>> \o to_ne_bytes(m.checksum) \o to_ne_bytes(m.identifier)
        \o to_ne_bytes(m.sequence_number) \o m.data

try_from_bytes(bytes) ==
    IF Len(bytes) < 8 THEN None
    ELSE Some(ICMPMessage(bytes[1], bytes[2],
                          from_ne_bytes(bytes[3], bytes[4]),
                          from_ne_bytes(bytes[5], bytes[6]),
                          from_ne_bytes(bytes[7], bytes[8]),
                          SubSeq(bytes, 9, Len(bytes))))

----------------------------------------------------------------------------
(* compute_checksum *)

\* the value of one chunk of chunks(2): a pair, or a final single byte
ChunkValue(bytes, i) ==
    IF i + 1 <= Len(bytes) THEN from_ne_bytes(bytes[i], bytes[i + 1])
    ELSE from_ne_bytes(bytes[i], 0)

RECURSIVE SumChunks(_, _, _, _)
\* the for loop over msg.as_bytes().chunks(2), from the chunk at index i
SumChunks(bytes, i, checksum, overflows) ==
    IF i > Len(bytes) THEN [checksum |-> checksum, overflows |-> overflows]
    ELSE LET r == overflowing_add(checksum, ChunkValue(bytes, i))
         IN  SumChunks(bytes, i + 2, r.value,
                       IF r.overflowed THEN (overflows + 1) % U16 ELSE overflows)

\* compute_checksum without the end-around carry
FoldOverflowsNoCarry(s) == (U16 - 1) - s.checksum

\* the end of compute_checksum: add the overflows back, add one more when
\* that overflows, invert the bits
FoldOverflows(s) ==
    LET r == overflowing_add(s.checksum, s.overflows)
        c == IF r.overflowed THEN r.value + 1 ELSE r.value
    IN  (U16 - 1) - c

compute_checksum(m) ==
    FoldOverflows(SumChunks(as_bytes([m EXCEPT !.checksum = 0]), 1, 0, 0))

echo_message(id, sq, d) ==
    LET m == ICMPMessage(8, 0, 0, id, sq, d)
    IN  [m EXCEPT !.checksum = compute_checksum(m)]

----------------------------------------------------------------------------
(* The IP datagram *)

extract_icmp_message(bytes) ==
    IF Len(bytes) = 0 THEN None
    ELSE LET internet_header_length == bytes[1] % 16
             header_size == internet_header_length * 4
         IN  IF header_size > Len(bytes)
             THEN Panic("range start index out of range for slice")
             ELSE Some(SubSeq(bytes, header_size + 1, Len(bytes)))

extract_ttl(bytes) ==
    IF Len(bytes) <= 8 THEN Panic("index out of bounds") ELSE Some(bytes[9])

\* the condition without the comparison of the payload
ReplyAcceptedAnyData(m, sent) == m.checksum = compute_checksum(m)

\* the condition of the if of receive_echo_reply
ReplyAccepted(m, sent) == m.checksum = compute_checksum(m) /\ m.data = sent

receive_echo_reply(recv, sent) ==
    IF recv.tag = "Err" THEN None
    ELSE LET bytes == extract_icmp_message(recv.val)
         IN  IF bytes.tag # "Some" THEN bytes
             ELSE LET ttl == extract_ttl(bytes.val)
                      m == try_from_bytes(bytes.val)
                  IN  IF ttl.tag = "Panic" THEN ttl
                      ELSE IF m.tag = "None" THEN None
                      ELSE IF ReplyAccepted(m.val, sent)
                           THEN Some([msg |-> m.val, ttl |-> ttl.val])
                           ELSE None

----------------------------------------------------------------------------
(* display_frac_millis *)

Digit(d) == <<"0", "1", "2", "3", "4", "5", "6", "7", "8", "9">>[d + 1]

RECURSIVE to_string(_)
\* u128::to_string, as a sequence of characters
to_string(n) == IF n < 10 THEN <<Digit(n)>> ELSE to_string(n \div 10) \o <<Digit(n % 10)>>

RECURSIVE Fill(_, _)
\* a sequence of n copies of the character c
Fill(c, n) == IF n <= 0 THEN <<>> ELSE <<c>> \o Fill(c, n - 1)

\* the format {:0<3.3} of a string: cut to 3 characters, then padded on the
\* right with 0 to 3 characters
FormatFrac(str) ==
    LET cut == IF Len(str) > 3 THEN SubSeq(str, 1, 3) ELSE str
    IN  cut \o Fill("0", 3 - Len(cut))

display_frac_millis(duration) ==
    to_string(duration \div 1000) \o <<".">> \o FormatFrac(to_string(duration % 1000))

----------------------------------------------------------------------------
(* done and print_stats *)

done(transmitted, max) ==
    IF max.tag = "Some" THEN transmitted >= max.val ELSE FALSE

NaN == [nan |-> TRUE, num |-> 0, den |-> 0]

\* a finite f64, kept as the exact ratio num / den
Ratio(n, d) == [nan |-> FALSE, num |-> n, den |-> d]

\* a as f64 / b as f64 for naturals a <= b
f64_div(a, b) == IF b = 0 THEN NaN ELSE Ratio(a, b)

f64_mul(x, k) == IF x.nan THEN NaN ELSE Ratio(x.num * k, x.den)

\* k - x
f64_sub_from(k, x) == IF x.nan THEN NaN ELSE Ratio(k * x.den - x.num, x.den)

RECURSIVE SumRtt(_)
SumRtt(ts) == IF ts = <<>> THEN 0 ELSE ts[1].round_trip_time + SumRtt(Tail(ts))

MinRtt(ts) ==
    IF ts = <<>> THEN 0
    ELSE CHOOSE m \in {ts[i].round_trip_time : i \in DOMAIN ts} :
             \A i \in DOMAIN ts : m <= ts[i].round_trip_time

MaxRtt(ts) ==
    IF ts = <<>> THEN 0
    ELSE CHOOSE m \in {ts[i].round_trip_time : i \in DOMAIN ts} :
             \A i \in DOMAIN ts : m >= ts[i].round_trip_time

print_stats(ts) ==
    LET transmitted == Len(ts)
        length == IF transmitted > 0 THEN transmitted ELSE 1
        received == Cardinality({i \in DOMAIN ts : ts[i].received})
        packet_loss == f64_sub_from(100, f64_mul(f64_div(received, transmitted), 100))
    IN  [transmitted |-> transmitted, received |-> received,
         packet_loss |-> packet_loss,
         rtt_min |-> display_frac_millis(MinRtt(ts)),
         rtt_avg |-> display_frac_millis(SumRtt(ts) \div length),
         rtt_max |-> display_frac_millis(MaxRtt(ts))]

----------------------------------------------------------------------------
(* The network: what socket.recv can deliver *)

RECURSIVE WordSum(_, _)
\* RFC 1071: the sum of the 16-bit big-endian words of bytes from index i, an
\* odd final byte paired with a zero byte
WordSum(bytes, i) ==
    IF i > Len(bytes) THEN 0
    ELSE (256 * bytes[i] + (IF i + 1 <= Len(bytes) THEN bytes[i + 1] ELSE 0))
             + WordSum(bytes, i + 2)

RECURSIVE EndAroundCarry(_)
EndAroundCarry(s) == IF s < U16 THEN s ELSE EndAroundCarry((s % U16) + (s \div U16))

\* RFC 1071: the one's-complement checksum of a byte sequence
Rfc1071(bytes) == (U16 - 1) - EndAroundCarry(WordSum(bytes, 1))

ByteValues == {0, 255}

Identifiers == {4660, 65535}

IHLs == {5, 6}

TTLs == {64}

\* the round trip times of a datagram that arrived, in microseconds
RTTs == {1005}

\* Options::timeout in seconds, and in microseconds
DefaultTimeout == 2

TimeoutMicros == DefaultTimeout * 1000000

BufferSize == 1024

Payloads(n) == [1..n -> ByteValues]

\* an IPv4 header of h 32-bit words: version 4 and h in byte 0, the TTL in
\* byte 8, protocol 1 (ICMP) in byte 9
IPHeader(h, ttl) ==
    [i \in 1..(4 * h) |->
        IF i = 1 THEN 64 + h ELSE IF i = 9 THEN ttl ELSE IF i = 10 THEN 1 ELSE 0]

\* the payloads a peer may echo: the one sent, or one differing in one byte
EchoedPayloads(sent) ==
    {sent} \cup {[sent EXCEPT ![i] = b] : i \in DOMAIN sent, b \in ByteValues}

\* an echo reply to the request whose bytes are request, carrying payload:
\* type 0, identifier and sequence number bytes as in the request, the
\* checksum of RFC 1071 (plus damage, 0 for none) in network byte order
EchoReplyBytes(request, payload, damage) ==
    LET zeroed == <<0, 0, 0, 0>> \o SubSeq(request, 5, 8) \o payload
        ck == (Rfc1071(zeroed) + damage) % U16
    IN  <<0, 0, ck \div 256, ck % 256>> \o SubSeq(request, 5, 8) \o payload

FullDatagrams(request, sent) ==
    {IPHeader(h, ttl) \o EchoReplyBytes(request, payload, damage) :
        h \in IHLs, ttl \in TTLs, payload \in EchoedPayloads(sent),
        damage \in {0, 1}}

\* every datagram of FullDatagrams, whole or with its ICMP part cut short at
\* any length (the kernel delivers a datagram with its whole IP header), as
\* far as it fits the buffer
Datagrams(request, sent) ==
    UNION {{SubSeq(d, 1, n) :
               n \in (4 * (d[1] % 16))..(IF Len(d) < BufferSize THEN Len(d) ELSE BufferSize)} :
              d \in FullDatagrams(request, sent)}

RecvOutcomes(request, sent) ==
    {RecvErr} \cup {RecvOk(d) : d \in Datagrams(request, sent)}

----------------------------------------------------------------------------
(* The session: main, ping_address, print_stats *)

NotRun == [tag |-> "NotRun"]

Init ==
    /\ pc = "connect"
    /\ little_endian \in BOOLEAN
    /\ max_transmitted \in {None} \cup {Some(n) : n \in 0..MaxAttempts}
    /\ packet_size \in 0..MaxPacketSize
    /\ identifier \in Identifiers
    /\ sequence_number = 0
    /\ socket = "none"
    /\ panic_msg = ""
    /\ transmissions = <<>>
    /\ data_sent = <<>>
    /\ msg = None
    /\ wire = <<>>
    /\ buffer = NotRun
    /\ icmp = NotRun
    /\ reply = NotRun
    /\ line = None
    /\ elapsed = 0
    /\ stats = None
    /\ rendered = <<>>

connect_to(outcome) ==
    /\ pc = "connect"
    /\ IF outcome = "new_failed"
       THEN /\ pc' = "panic"
            /\ panic_msg' = "Invalid socket configuration."
            /\ socket' = "none"
       ELSE IF outcome = "set_read_timeout_failed"
       THEN /\ pc' = "panic"
            /\ panic_msg' = "Failed to set timeout on socket."
            /\ socket' = "none"
       ELSE /\ pc' = "while"
            /\ panic_msg' = panic_msg
            /\ socket' = IF outcome = "connect_failed" THEN "unconnected"
                         ELSE "connected"
    /\ UNCHANGED <<little_endian, max_transmitted, packet_size, identifier,
                   sequence_number, transmissions, data_sent, msg, wire,
                   buffer, icmp, reply, line, elapsed, stats, rendered>>

ConnectTo ==
    \E outcome \in {"new_failed", "set_read_timeout_failed", "connect_failed", "ok"} :
        connect_to(outcome)

\* the while condition is false: ping_address returns, main goes on to print_stats
LoopExit ==
    /\ pc = "while"
    /\ done(Len(transmissions), max_transmitted)
    /\ pc' = "stats"
    /\ UNCHANGED <<little_endian, max_transmitted, packet_size, identifier,
                   sequence_number, socket, panic_msg, transmissions, data_sent,
                   msg, wire, buffer, icmp, reply, line, elapsed, stats,
                   rendered>>

\* the first half of an iteration: the timer, a fresh payload, the request,
\* a fresh buffer
send_echo_request(data) ==
    /\ pc = "while"
    /\ ~done(Len(transmissions), max_transmitted)
    /\ Len(transmissions) < MaxAttempts
    /\ sequence_number' = Len(transmissions) % U16
    /\ data_sent' = data
    /\ msg' = echo_message(identifier, sequence_number', data)
    /\ wire' = as_bytes(msg')
    /\ buffer' = NotRun
    /\ icmp' = NotRun
    /\ reply' = NotRun
    /\ line' = None
    /\ elapsed' = 0
    /\ pc' = "receive"
    /\ UNCHANGED <<little_endian, max_transmitted, packet_size, identifier,
                   socket, panic_msg, transmissions, stats, rendered>>

SendEchoRequest == \E data \in Payloads(packet_size) : send_echo_request(data)

\* the second half of an iteration: receive_echo_reply and the if let on it
ReceiveEchoReply ==
    /\ pc = "receive"
    /\ \E recv \in RecvOutcomes(wire, data_sent) :
       \E rtt \in (IF recv.tag = "Err" THEN {TimeoutMicros} ELSE RTTs) :
        LET r == receive_echo_reply(recv, data_sent)
        IN  /\ buffer' = recv
            /\ icmp' = IF recv.tag = "Ok" THEN extract_icmp_message(recv.val)
                       ELSE NotRun
            /\ reply' = r
            /\ IF r.tag = "Panic"
               THEN /\ pc' = "panic"
                    /\ panic_msg' = r.val
                    /\ UNCHANGED <<transmissions, line, elapsed>>
               ELSE /\ pc' = "while"
                    /\ panic_msg' = panic_msg
                    /\ elapsed' = rtt
                    /\ IF r.tag = "Some"
                       THEN /\ line' = Some([bytes |-> Len(r.val.msg.data),
                                             icmp_seq |-> Len(transmissions),
                                             ttl |-> r.val.ttl,
                                             time |-> display_frac_millis(rtt)])
                            /\ transmissions' = Append(transmissions,
                                   [received |-> TRUE, round_trip_time |-> rtt])
                       ELSE /\ line' = None
                            /\ transmissions' = Append(transmissions,
                                   [received |-> FALSE, round_trip_time |-> rtt])
    /\ UNCHANGED <<little_endian, max_transmitted, packet_size, identifier,
                   sequence_number, socket, data_sent, msg, wire, stats,
                   rendered>>

PrintStats ==
    /\ pc = "stats"
    /\ stats' = Some(print_stats(transmissions))
    /\ pc' = "exit"
    /\ UNCHANGED <<little_endian, max_transmitted, packet_size, identifier,
                   sequence_number, socket, panic_msg, transmissions, data_sent,
                   msg, wire, buffer, icmp, reply, line, elapsed, rendered>>

Next == ConnectTo \/ LoopExit \/ SendEchoRequest \/ ReceiveEchoReply \/ PrintStats

Spec == Init /\ [][Next]_vars

----------------------------------------------------------------------------
(* The codec alone: echo_message and as_bytes on chosen inputs *)

CodecWords == {0, 1, 255, 256, 4660, 65280, 65535}

CodecBytes == {0, 1, 128, 255}

CodecPayloads == UNION {[1..n -> CodecBytes] : n \in 0..MaxDataLen}

CodecInit ==
    /\ pc = "codec"
    /\ little_endian \in BOOLEAN
    /\ identifier \in CodecWords
    /\ sequence_number \in CodecWords
    /\ data_sent \in CodecPayloads
    /\ max_transmitted = None
    /\ packet_size = Len(data_sent)
    /\ socket = "none"
    /\ panic_msg = ""
    /\ transmissions = <<>>
    /\ msg = None
    /\ wire = <<>>
    /\ buffer = NotRun
    /\ icmp = NotRun
    /\ reply = NotRun
    /\ line = None
    /\ elapsed = 0
    /\ stats = None
    /\ rendered = <<>>

EchoMessage ==
    /\ pc = "codec"
    /\ msg' = echo_message(identifier, sequence_number, data_sent)
    /\ wire' = as_bytes(msg')
    /\ pc' = "encoded"
    /\ UNCHANGED <<little_endian, max_transmitted, packet_size, identifier,
                   sequence_number, socket, panic_msg, transmissions, data_sent,
                   buffer, icmp, reply, line, elapsed, stats, rendered>>

CodecNext == EchoMessage

CodecSpec == CodecInit /\ [][CodecNext]_vars

----------------------------------------------------------------------------
(* display_frac_millis alone *)

FmtInit ==
    /\ pc = "fmt"
    /\ elapsed \in 0..MaxMicros
    /\ rendered = <<>>
    /\ little_endian = TRUE
    /\ max_transmitted = None
    /\ packet_size = 0
    /\ identifier = 0
    /\ sequence_number = 0
    /\ socket = "none"
    /\ panic_msg = ""
    /\ transmissions = <<>>
    /\ data_sent = <<>>
    /\ msg = None
    /\ wire = <<>>
    /\ buffer = NotRun
    /\ icmp = NotRun
    /\ reply = NotRun
    /\ line = None
    /\ stats = None

DisplayFracMillis ==
    /\ pc = "fmt"
    /\ rendered' = display_frac_millis(elapsed)
    /\ pc' = "displayed"
    /\ UNCHANGED <<little_endian, max_transmitted, packet_size, identifier,
                   sequence_number, socket, panic_msg, transmissions, data_sent,
                   msg, wire, buffer, icmp, reply, line, elapsed, stats>>

FmtNext == DisplayFracMillis

FmtSpec == FmtInit /\ [][FmtNext]_vars

----------------------------------------------------------------------------
(* extract_icmp_message alone, on arbitrary byte slices *)

UnwrapBytes == {0, 65, 66, 69}

UnwrapInputs == UNION {[1..n -> UnwrapBytes] : n \in 0..MaxDatagramLen}

UnwrapInit ==
    /\ pc = "unwrap"
    /\ buffer \in {RecvOk(d) : d \in UnwrapInputs}
    /\ icmp = NotRun
    /\ little_endian = TRUE
    /\ max_transmitted = None
    /\ packet_size = 0
    /\ identifier = 0
    /\ sequence_number = 0
    /\ socket = "none"
    /\ panic_msg = ""
    /\ transmissions = <<>>
    /\ data_sent = <<>>
    /\ msg = None
    /\ wire = <<>>
    /\ reply = NotRun
    /\ line = None
    /\ elapsed = 0
    /\ stats = None
    /\ rendered = <<>>

ExtractIcmpMessage ==
    /\ pc = "unwrap"
    /\ icmp' = extract_icmp_message(buffer.val)
    /\ pc' = "unwrapped"
    /\ UNCHANGED <<little_endian, max_transmitted, packet_size, identifier,
                   sequence_number, socket, panic_msg, transmissions, data_sent,
                   msg, wire, buffer, reply, line, elapsed, stats, rendered>>

UnwrapNext == ExtractIcmpMessage

UnwrapSpec == UnwrapInit /\ [][UnwrapNext]_vars

----------------------------------------------------------------------------
(* Properties *)

Last(seq) == seq[Len(seq)]

\* the ICMP message inside a datagram d that is at least as long as its header
IcmpOf(d) == SubSeq(d, 4 * (d[1] % 16) + 1, Len(d))

\* the checksum field of the ICMP message b, read in network byte order, is
\* the RFC 1071 checksum of b with that field zeroed
ChecksumConsistent(b) ==
    /\ Len(b) >= 8
    /\ 256 * b[3] + b[4] = Rfc1071(<<b[1], b[2], 0, 0>> \o SubSeq(b, 5, Len(b)))

PayloadOf(b) == SubSeq(b, 9, Len(b))

DiffersInOneByte(a, b) ==
    /\ Len(a) = Len(b)
    /\ Cardinality({i \in DOMAIN a : a[i] # b[i]}) = 1

\* recv delivered a whole ICMP message with a consistent checksum and the
\* payload sent
ValidReplyDatagram(recv, sent) ==
    /\ recv.tag = "Ok"
    /\ Len(recv.val) > 0
    /\ 4 * (recv.val[1] % 16) <= Len(recv.val)
    /\ ChecksumConsistent(IcmpOf(recv.val))
    /\ PayloadOf(IcmpOf(recv.val)) = sent

\* an iteration has just recorded its attempt
AttemptRecorded == buffer.tag \in {"Ok", "Err"} /\ pc # "panic"

\* C1: as_bytes writes the multi-byte fields most-significant byte first,
\* whatever the byte order of the host: bytes 4..5 are the identifier's high
\* byte then low byte, bytes 6..7 the sequence number's high byte then low byte.
C1_NetworkByteOrder ==
    pc = "encoded" =>
        /\ wire[5] = identifier \div 256 /\ wire[6] = identifier % 256
        /\ wire[7] = sequence_number \div 256 /\ wire[8] = sequence_number % 256

\* C2: the RFC 1071 checksum (big-endian words, zero pad, end-around carry,
\* complement) over the encoded bytes of a request built by echo_message,
\* checksum field in place, is 0 on hosts of either byte order.
C2_ChecksumRoundTrip == pc = "encoded" => Rfc1071(wire) = 0

\* C2 witness: a little-endian host encoded a request with a payload of odd
\* length whose word sum overflowed 16 bits.
C2_Witness ==
    /\ pc = "encoded"
    /\ little_endian
    /\ Len(data_sent) % 2 = 1
    /\ SumChunks(as_bytes([msg EXCEPT !.checksum = 0]), 1, 0, 0).overflows > 0
    /\ Rfc1071(wire) = 0

\* C3: extract_icmp_message returns exactly the bytes from offset 4*h on when
\* the datagram has at least 4*h bytes, and None when it has fewer.
C3_ExtractExactOrNone ==
    (pc = "unwrapped" /\ Len(buffer.val) > 0) =>
        IF 4 * (buffer.val[1] % 16) <= Len(buffer.val)
        THEN icmp.tag = "Some" /\ icmp.val = IcmpOf(buffer.val)
        ELSE icmp.tag = "None"

\* C4: the TTL reported for a received attempt is the byte at offset 8 of
\* the raw IP datagram received.
C4_TtlIsDatagramByte8 ==
    (AttemptRecorded /\ reply.tag = "Some") => line.val.ttl = buffer.val[9]

\* C5: an attempt is recorded as received only if the reply's checksum is
\* consistent and its payload is the payload sent in that iteration; a reply
\* whose payload differs in one byte is recorded as not received.
C5_ReceivedOnlyIfValid ==
    AttemptRecorded =>
        /\ Last(transmissions).received => ValidReplyDatagram(buffer, data_sent)
        /\ (/\ buffer.tag = "Ok"
            /\ Len(buffer.val) > 0
            /\ 4 * (buffer.val[1] % 16) + 8 <= Len(buffer.val)
            /\ DiffersInOneByte(PayloadOf(IcmpOf(buffer.val)), data_sent))
           => ~Last(transmissions).received

\* C5 witness: a reply with a consistent checksum whose payload differs from
\* the payload sent in one byte was recorded as not received.
C5_Witness ==
    /\ AttemptRecorded
    /\ buffer.tag = "Ok"
    /\ Len(buffer.val) > 0
    /\ 4 * (buffer.val[1] % 16) + 8 <= Len(buffer.val)
    /\ ChecksumConsistent(IcmpOf(buffer.val))
    /\ DiffersInOneByte(PayloadOf(IcmpOf(buffer.val)), data_sent)
    /\ ~Last(transmissions).received

\* C6: whatever recv delivers that is not a valid reply (a timeout, a cut or
\* malformed datagram, a checksum or payload mismatch), the iteration records
\* exactly one attempt with received = false and the loop goes on.
C6_RecoverableErrorsNeverAbort ==
    [][(pc = "receive" /\ ~ValidReplyDatagram(buffer', data_sent)) =>
          /\ pc' = "while"
          /\ Len(transmissions') = Len(transmissions) + 1
          /\ SubSeq(transmissions', 1, Len(transmissions)) = transmissions
          /\ ~Last(transmissions').received]_vars

\* C7: when creating the socket, setting its timeout or connecting it fails,
\* no echo request is handed to the socket and no attempt is recorded.
C7_SetupFailureIsFatal ==
    (\/ socket = "unconnected"
     \/ panic_msg \in {"Invalid socket configuration.",
                       "Failed to set timeout on socket."})
        => (transmissions = <<>> /\ wire = <<>>)

\* C8: the packet loss print_stats computes is a number, 100 * (1 - received
\* / transmitted), and 0 for a session of zero attempts.
C8_PacketLossDefined ==
    pc = "exit" =>
        LET t == Len(transmissions)
            r == Cardinality({i \in DOMAIN transmissions : transmissions[i].received})
            loss == stats.val.packet_loss
        IN  /\ ~loss.nan
            /\ IF t = 0 THEN loss.num = 0
               ELSE loss.num * t = (100 * t - 100 * r) * loss.den

\* C9: with a maximum attempt count n and the socket set up, the session
\* stops only by leaving the loop with exactly n recorded attempts: whenever
\* it is not inside the loop or on its way to print_stats, it has finished
\* with n attempts.
C9_StopsOnlyDoneWithNAttempts ==
    (max_transmitted.tag = "Some" /\ socket # "none"
        /\ pc \notin {"while", "receive", "stats"})
        => (pc = "exit" /\ Len(transmissions) = max_transmitted.val)

\* C10: display_frac_millis renders the whole milliseconds, a dot, and the
\* microsecond remainder as three digits with leading zeros.
C10_ThreeDigitMicros ==
    pc = "displayed" =>
        LET us == elapsed % 1000
        IN  rendered = to_string(elapsed \div 1000) \o <<".">>
                \o <<Digit(us \div 100), Digit((us \div 10) % 10), Digit(us % 10)>>

====
